---- MODULE Spec2Model ----
(***************************************************************************)
(* State-machine model of the XNH_2DCAD drawing surface (src/App.tsx,      *)
(* src/utils/math.ts, services/geminiService, types).                      *)
(*                                                                         *)
(* Numbers.  JavaScript numbers are modelled as exact rationals.  A world  *)
(* coordinate is held as an integer count of 1/WorldScale world units,     *)
(* with WorldScale = 110^MaxZoomSteps, so that every quotient by a zoom    *)
(* factor 1.1^k (|k| <= MaxZoomSteps) of a whole pixel count is exact.     *)
(* view.zoom holds the exponent k of the zoom factor 1.1^k.  A distance    *)
(* (a square root) is held as its square, [sq |-> n], and compared by      *)
(* exact algebra.  Products that exceed TLC's integers are computed on      *)
(* signed multi-limb integers (the Big* operators).                        *)
(*                                                                         *)
(* Pointer events carry canvas-relative pixel positions (clientX/Y minus   *)
(* the canvas origin, which is fixed during a run).  Entity colour, the    *)
(* `selected` flag, layer name/colour, mousePos and commandHistory are     *)
(* display-only and are not part of the model's state.                     *)
(***************************************************************************)
EXTENDS Integers, Sequences, FiniteSets, TLC

(* ---------------------------- bounds ----------------------------------- *)
MaxEntities == 2
MaxZoomSteps == 1
MaxPan == 40
MaxLayers == 4
MaxItems == 2
MaxDrawing == 3

(* ------------------- exact arithmetic on large integers ---------------- *)
Base == 10000

RECURSIVE MagOfNat(_)
MagOfNat(n) == IF n = 0 THEN <<>> ELSE <<n % Base>> \o MagOfNat(n \div Base)

RECURSIVE MagTrim(_)
MagTrim(a) ==
  IF a # <<>> /\ a[Len(a)] = 0 THEN MagTrim(SubSeq(a, 1, Len(a) - 1)) ELSE a

RECURSIVE MagAdd(_, _, _)
MagAdd(a, b, c) ==
  IF a = <<>> /\ b = <<>> THEN (IF c = 0 THEN <<>> ELSE <<c>>)
  ELSE LET x == IF a = <<>> THEN 0 ELSE Head(a)
           y == IF b = <<>> THEN 0 ELSE Head(b)
           s == x + y + c
       IN <<s % Base>> \o MagAdd(IF a = <<>> THEN a ELSE Tail(a),
                                 IF b = <<>> THEN b ELSE Tail(b), s \div Base)

RECURSIVE MagSub(_, _, _)
MagSub(a, b, c) ==
  IF a = <<>> THEN <<>>
  ELSE LET y == IF b = <<>> THEN 0 ELSE Head(b)
           s == Head(a) - y - c
       IN <<s % Base>> \o MagSub(Tail(a), IF b = <<>> THEN b ELSE Tail(b),
                                 IF s < 0 THEN 1 ELSE 0)

RECURSIVE MagCmpAt(_, _, _)
MagCmpAt(a, b, i) ==
  IF i = 0 THEN 0
  ELSE IF a[i] < b[i] THEN -1
  ELSE IF a[i] > b[i] THEN 1
  ELSE MagCmpAt(a, b, i - 1)

MagCmp(a, b) ==
  IF Len(a) < Len(b) THEN -1
  ELSE IF Len(a) > Len(b) THEN 1
  ELSE MagCmpAt(a, b, Len(a))

RECURSIVE MagMulLimb(_, _, _)
MagMulLimb(a, d, c) ==
  IF a = <<>> THEN (IF c = 0 THEN <<>> ELSE <<c>>)
  ELSE LET s == Head(a) * d + c
       IN <<s % Base>> \o MagMulLimb(Tail(a), d, s \div Base)

RECURSIVE MagMul(_, _)
MagMul(a, b) ==
  IF a = <<>> \/ b = <<>> THEN <<>>
  ELSE MagAdd(MagTrim(MagMulLimb(a, Head(b), 0)),
              (IF Tail(b) = <<>> THEN <<>> ELSE MagTrim(<<0>> \o MagMul(a, Tail(b)))),
              0)

BigOfInt(i) == [neg |-> i < 0, mag |-> MagOfNat(IF i < 0 THEN -i ELSE i)]

BigZero == BigOfInt(0)

BigNeg(a) == [neg |-> (~a.neg) /\ a.mag # <<>>, mag |-> a.mag]

BigAdd(a, b) ==
  IF a.neg = b.neg THEN [neg |-> a.neg, mag |-> MagAdd(a.mag, b.mag, 0)]
  ELSE LET c == MagCmp(a.mag, b.mag) IN
       IF c = 0 THEN [neg |-> FALSE, mag |-> <<>>]
       ELSE IF c > 0 THEN [neg |-> a.neg, mag |-> MagTrim(MagSub(a.mag, b.mag, 0))]
       ELSE [neg |-> b.neg, mag |-> MagTrim(MagSub(b.mag, a.mag, 0))]

BigSub(a, b) == BigAdd(a, BigNeg(b))

BigMul(a, b) ==
  LET m == MagMul(a.mag, b.mag)
  IN [neg |-> (a.neg # b.neg) /\ m # <<>>, mag |-> m]

BigSq(a) == BigMul(a, a)

BigLess(a, b) == BigSub(a, b).neg

(* ------------- JavaScript numbers: IEEE 754 binary64 arithmetic -------- *)
\* a number is m * 2^e with m a signed integer of at most MantissaBits bits;
\* every operation rounds its exact result to the nearest such number, ties
\* to the even mantissa (exponent range and signed zero are left out: the
\* magnitudes here stay between 2^-60 and 2^60)
MantissaBits == 53

BigOne == BigOfInt(1)

BigAbs(a) == [neg |-> FALSE, mag |-> a.mag]

BigIsOdd(a) == a.mag # <<>> /\ Head(a.mag) % 2 = 1

\* 2^k by repeated squaring
RECURSIVE Pow2BySquaring(_)
Pow2BySquaring(k) ==
  IF k = 0 THEN BigOne
  ELSE IF k % 2 = 0 THEN BigSq(Pow2BySquaring(k \div 2))
  ELSE BigAdd(Pow2BySquaring(k - 1), Pow2BySquaring(k - 1))

\* 2^0 .. 2^(4 * MantissaBits), computed once
PowersOfTwo == [k \in 0..(4 * MantissaBits) |-> Pow2BySquaring(k)]

Pow2(k) == PowersOfTwo[k]

\* the least k' >= k with a < 2^k'
RECURSIVE BitLengthFrom(_, _)
BitLengthFrom(a, k) == IF BigLess(a, Pow2(k)) THEN k ELSE BitLengthFrom(a, k + 1)

\* the number of bits of a > 0 (a limb of Base holds at least 13 bits)
BitLength(a) == BitLengthFrom(a, 13 * (Len(a.mag) - 1))

\* a * Base^j
Shifted(a, j) == [i \in 1..j |-> 0] \o a

\* the largest t in lo..hi with d * t <= r, on magnitudes
RECURSIVE Digit(_, _, _, _)
Digit(r, d, lo, hi) ==
  IF lo = hi THEN lo
  ELSE IF MagCmp(MagTrim(MagMulLimb(d, (lo + hi + 1) \div 2, 0)), r) <= 0
       THEN Digit(r, d, (lo + hi + 1) \div 2, hi)
       ELSE Digit(r, d, lo, ((lo + hi + 1) \div 2) - 1)

\* long division of the magnitude r by d, one limb t of the quotient q at a
\* time, from the limb of Base^j down
RECURSIVE DivLimbs(_, _, _, _)
RECURSIVE DivDigit(_, _, _, _, _)
DivLimbs(r, d, j, q) ==
  IF j < 0 THEN [quot |-> q, rem |-> r]
  ELSE DivDigit(r, d, j, q, Digit(r, Shifted(d, j), 0, Base - 1))

DivDigit(r, d, j, q, t) ==
  DivLimbs(MagTrim(MagSub(r, MagTrim(MagMulLimb(Shifted(d, j), t, 0)), 0)),
           d, j - 1, <<t>> \o q)

\* floor(n / d) and the remainder, for n >= 0 and d > 0
BigOfLimbs(res) ==
  [quot |-> [neg |-> FALSE, mag |-> MagTrim(res.quot)],
   rem |-> [neg |-> FALSE, mag |-> res.rem]]

DivFloor(n, d) ==
  BigOfLimbs(DivLimbs(n.mag, d.mag, Len(n.mag) - Len(d.mag), <<>>))

Float(m, e) == [m |-> m, e |-> e]

FloatZero == Float(BigZero, 0)

\* n * 2^-s and d * 2^s, kept whole
Numerator(n, s) == IF s < 0 THEN BigMul(n, Pow2(0 - s)) ELSE n
Denominator(d, s) == IF s > 0 THEN BigMul(d, Pow2(s)) ELSE d

\* the s or s + 1 for which n / (d * 2^s) has MantissaBits bits
ExponentNear(n, d, s) ==
  IF BigLess(Numerator(n, s), BigMul(Denominator(d, s), Pow2(MantissaBits)))
  THEN s ELSE s + 1

Exponent(n, d) == ExponentNear(n, d, BitLength(n) - BitLength(d) - MantissaBits)

\* the quotient q with remainder r of a division by d, to nearest, ties to even
Nearest(q, r, d) ==
  IF BigLess(d, BigAdd(r, r)) \/ (BigAdd(r, r) = d /\ BigIsOdd(q))
  THEN BigAdd(q, BigOne) ELSE q

\* q * 2^e with q of MantissaBits bits, or 2^MantissaBits
Normal(q, e) ==
  IF q = Pow2(MantissaBits) THEN Float(Pow2(MantissaBits - 1), e + 1)
  ELSE Float(q, e)

RoundQuotient(qr, d, e) == Normal(Nearest(qr.quot, qr.rem, d), e)

RoundAt(n, d, e, s) ==
  RoundQuotient(DivFloor(Numerator(n, s), Denominator(d, s)),
                Denominator(d, s), e + s)

\* (n / d) * 2^e with n > 0 and d > 0, rounded to nearest, ties to even
RoundPositive(n, d, e) == RoundAt(n, d, e, Exponent(n, d))

\* (n / d) * 2^e with d > 0, as the nearest number
FloatNeg(a) == Float(BigNeg(a.m), a.e)

Round(n, d, e) ==
  IF n.mag = <<>> THEN FloatZero
  ELSE IF n.neg THEN FloatNeg(RoundPositive(BigAbs(n), d, e))
  ELSE RoundPositive(n, d, e)

\* the integer i as a number
FloatOfInt(i) == Round(BigOfInt(i), BigOne, 0)

\* the mantissa of a at the exponent e <= a.e
Aligned(a, e) == IF a.e = e THEN a.m ELSE BigMul(a.m, Pow2(a.e - e))

MinExp(a, b) == IF a.e < b.e THEN a.e ELSE b.e

\* a + b, a - b, a * b and a / b of JavaScript
FloatAdd(a, b) ==
  Round(BigAdd(Aligned(a, MinExp(a, b)), Aligned(b, MinExp(a, b))),
        BigOne, MinExp(a, b))

FloatSub(a, b) == FloatAdd(a, FloatNeg(b))

FloatMul(a, b) == Round(BigMul(a.m, b.m), BigOne, a.e + b.e)

FloatDiv(a, b) ==
  Round(IF b.m.neg THEN BigNeg(a.m) ELSE a.m, BigAbs(b.m), a.e - b.e)

\* |a - b| * 2^k < 1, on the exact values
BigWithin(d, e) == IF e >= 0 THEN d.mag = <<>> ELSE BigLess(d, Pow2(0 - e))

FloatWithin(a, b, k) ==
  BigWithin(BigAbs(BigSub(Aligned(a, MinExp(a, b)), Aligned(b, MinExp(a, b)))),
            MinExp(a, b) + k)

(* --------------------------- zoom and scale ---------------------------- *)
RECURSIVE Pow(_, _)
Pow(b, n) == IF n = 0 THEN 1 ELSE b * Pow(b, n - 1)

\* the fixed wheel factor 1.1 = ScaleNum / ScaleDen
ScaleNum == 11
ScaleDen == 10

WorldScale == Pow(ScaleNum * ScaleDen, MaxZoomSteps)

\* the zoom factor 1.1^k as the fraction ZoomNum(k) / ZoomDen(k)
ZoomNum(k) == IF k >= 0 THEN Pow(ScaleNum, k) ELSE Pow(ScaleDen, -k)
ZoomDen(k) == IF k >= 0 THEN Pow(ScaleDen, k) ELSE Pow(ScaleNum, -k)

\* pixels / zoom, in 1/WorldScale world units (exact for |k| <= MaxZoomSteps)
DivZoom(px, k) == (px * WorldScale * ZoomDen(k)) \div ZoomNum(k)

(* ------------------------------ inputs --------------------------------- *)
\* canvas pixel positions of pointer events
P00 == [x |-> 10, y |-> 10]
P11 == [x |-> 30, y |-> 25]
P22 == [x |-> 50, y |-> 40]
ScreenPts == {P00, P11, P22}

\* e.button: 0 primary, 1 middle
Buttons == {0, 1}

\* the outcomes of generateId() the model draws from (two calls may agree)
IdPool == {"a", "b"}

\* tools the toolbar and the command line can make active
ToolButtons == {"SELECT", "LINE", "RECTANGLE", "CIRCLE", "TEXT"}
Commands == {"L", "C", "R", "X"}

\* what the user types into the prompt field
Prompts == {"", "draw"}

\* records of a generation response (coordinates in world units)
ItemLine == [type |-> "line", startX |-> 0, startY |-> 0, endX |-> 20, endY |-> 15]
ItemUnknown == [type |-> "arc"]
\* a record without the field type
ItemMissing == [startX |-> 0, startY |-> 0, endX |-> 20, endY |-> 15]
ItemPool == {ItemLine, ItemUnknown}

\* layer rows the model clicks on
VisibleToggles == {2}
LockToggles == {3}
SelectableLayers == {1, 2}

(* ----------------------------- src/utils/math.ts ----------------------- *)
\* Math.sqrt(dx^2 + dy^2), held as its square
distance(p1, p2) ==
  [sq |-> BigAdd(BigSq(BigOfInt(p2.x - p1.x)), BigSq(BigOfInt(p2.y - p1.y)))]

\* the number n >= 0 as a distance value
RootOfInt(n) == [sq |-> BigSq(BigOfInt(n))]

screenToWorld(screenX, screenY, viewX, viewY, zoom) ==
  [x |-> DivZoom(screenX - viewX, zoom), y |-> DivZoom(screenY - viewY, zoom)]

\* screenToWorld on JavaScript numbers: every operation rounds
screenToWorldFloat(screenX, screenY, viewX, viewY, zoom) ==
  [x |-> FloatDiv(FloatSub(screenX, viewX), zoom),
   y |-> FloatDiv(FloatSub(screenY, viewY), zoom)]

\* worldToScreen with the pan subtracted
C17_worldToScreen(worldX, worldY, viewX, viewY, zoom) ==
  [x |-> FloatSub(FloatMul(worldX, zoom), viewX),
   y |-> FloatSub(FloatMul(worldY, zoom), viewY)]

worldToScreen(worldX, worldY, viewX, viewY, zoom) ==
  [x |-> FloatAdd(FloatMul(worldX, zoom), viewX),
   y |-> FloatAdd(FloatMul(worldY, zoom), viewY)]

(* ------------------------------- state --------------------------------- *)
VARIABLES
  entities,       \* Entity[]            (App.tsx:90)
  layers,         \* Layer[]             (App.tsx:91)
  activeLayerId,  \* string              (App.tsx:92)
  view,           \* {x, y, zoom}        (App.tsx:93)
  tool,           \* ToolType            (App.tsx:94)
  selectedIds,    \* string[]            (App.tsx:95)
  previewEntity,  \* <<>> (null) or <<entity>>   (App.tsx:96)
  isDrawing,      \* boolean             (App.tsx:99)
  startPoint,     \* <<>> (null) or <<point>>    (App.tsx:100)
  dragStart,      \* <<>> (null) or <<pixel point>>  (App.tsx:101)
  prompt,         \* string              (App.tsx:102)
  isGenerating,   \* boolean             (App.tsx:103)
  pending,        \* the generateCadEntities calls in flight: their layer ids
  last,           \* the event handled last (an Event record)
  gesture,        \* the pointer events seen since a pointer-down in Idle
  profile,        \* which events the environment produces (fixed in a run)
  exported,       \* the lines of the document exported last (<<>>: none yet)
  probe           \* a call of the coordinate functions: arguments and results

vars == <<entities, layers, activeLayerId, view, tool, selectedIds,
          previewEntity, isDrawing, startPoint, dragStart, prompt,
          isGenerating, pending, last, gesture, profile, exported,
          probe>>

INITIAL_LAYERS ==
  << [id |-> "0", visible |-> TRUE, locked |-> FALSE],
     [id |-> "1", visible |-> TRUE, locked |-> FALSE],
     [id |-> "2", visible |-> TRUE, locked |-> FALSE] >>

INITIAL_VIEW == [x |-> 0, y |-> 0, zoom |-> 0]

\* the record of an event: its kind, the branch the handler took, the world
\* point and button of a pointer event, the index of the entity a click hit
Event(op, did) == [op |-> op, did |-> did, pt |-> <<>>, hit |-> 0, btn |-> 0]
PointerEvent(op, did, worldPos, button, hit) ==
  [op |-> op, did |-> did, pt |-> <<worldPos>>, hit |-> hit, btn |-> button]

NoGesture == [phase |-> "none", a |-> <<>>, btn |-> 0]

\* no call of the coordinate functions is followed
NoProbe == <<>>

Init ==
  /\ entities = <<>>
  /\ layers = INITIAL_LAYERS
  /\ activeLayerId = "0"
  /\ view = INITIAL_VIEW
  /\ tool = "SELECT"
  /\ selectedIds = <<>>
  /\ previewEntity = <<>>
  /\ isDrawing = FALSE
  /\ startPoint = <<>>
  /\ dragStart = <<>>
  /\ prompt = ""
  /\ isGenerating = FALSE
  /\ pending = <<>>
  /\ last = Event("init", "")
  /\ gesture = NoGesture
  /\ profile = "user"
  /\ exported = <<>>
  /\ probe = NoProbe

(* ------------------------------ hit test ------------------------------- *)
\* layers.find(l => l.id === id): index of the first layer with that id, or 0
RECURSIVE FindLayerFrom(_, _)
FindLayerFrom(id, i) ==
  IF i > Len(layers) THEN 0
  ELSE IF layers[i].id = id THEN i
  ELSE FindLayerFrom(id, i + 1)

FindLayer(id) == FindLayerFrom(id, 1)

\* layers.find(l => l.id === ent.layerId)?.visible
LayerVisible(id) == FindLayer(id) # 0 /\ layers[FindLayer(id)].visible

\* const tolerance = 5 / view.zoom
HitTolerancePx == 5
tolerance(zoom) == DivZoom(HitTolerancePx, zoom)

\* sqrt(d.sq) < t, for a number t >= 0
RootLess(d, t) == BigLess(d.sq, BigSq(BigOfInt(t)))

\* Math.abs(sqrt(d.sq) - sqrt(r.sq)) < t, for t > 0:
\*   d + r - 2 sqrt(d r) < t^2, that is s < 2 sqrt(d r) with s = d + r - t^2
AbsDiffLess(d, r, t) ==
  LET s == BigSub(BigAdd(d.sq, r.sq), BigSq(BigOfInt(t)))
  IN \/ s.neg
     \/ BigLess(BigSq(s), BigMul(BigOfInt(4), BigMul(d.sq, r.sq)))

\* HitCircle testing the disc: distance(worldPos, center) < r + tolerance
C7_HitCircle(ent, worldPos, tol) ==
  LET d == distance(worldPos, [x |-> ent.cx, y |-> ent.cy])
      s == BigSub(BigSub(d.sq, ent.r.sq), BigSq(BigOfInt(tol)))
  IN \/ s.neg
     \/ BigLess(BigSq(s), BigMul(BigOfInt(4),
                                 BigMul(ent.r.sq, BigSq(BigOfInt(tol)))))

HitCircle(ent, worldPos, tol) ==
  LET d == distance(worldPos, [x |-> ent.cx, y |-> ent.cy])
  IN AbsDiffLess(d, ent.r, tol)

\* HitLine with t left unclamped
C8_HitLine(ent, worldPos, tol) ==
  LET l2 == distance(ent.start, ent.end).sq
      ex == BigOfInt(ent.end.x - ent.start.x)
      ey == BigOfInt(ent.end.y - ent.start.y)
      wx == BigOfInt(worldPos.x - ent.start.x)
      wy == BigOfInt(worldPos.y - ent.start.y)
      dot == BigAdd(BigMul(wx, ex), BigMul(wy, ey))
      px == BigSub(BigMul(wx, l2), BigMul(dot, ex))
      py == BigSub(BigMul(wy, l2), BigMul(dot, ey))
  IN IF l2 = BigZero THEN RootLess(distance(worldPos, ent.start), tol)
     ELSE BigLess(BigAdd(BigSq(px), BigSq(py)),
                  BigMul(BigSq(BigOfInt(tol)), BigSq(l2)))

\* t = dot / l2 clamped to [0, 1]; proj = start + t (end - start); the
\* comparison distance(worldPos, proj) < tolerance is made after scaling
\* both sides by l2
HitLine(ent, worldPos, tol) ==
  LET l2 == distance(ent.start, ent.end).sq
      ex == BigOfInt(ent.end.x - ent.start.x)
      ey == BigOfInt(ent.end.y - ent.start.y)
      wx == BigOfInt(worldPos.x - ent.start.x)
      wy == BigOfInt(worldPos.y - ent.start.y)
      dot == BigAdd(BigMul(wx, ex), BigMul(wy, ey))
      tClamped == IF dot.neg THEN BigZero
                  ELSE IF BigLess(l2, dot) THEN l2
                  ELSE dot
      px == BigSub(BigMul(wx, l2), BigMul(tClamped, ex))
      py == BigSub(BigMul(wy, l2), BigMul(tClamped, ey))
  IN IF l2 = BigZero THEN RootLess(distance(worldPos, ent.start), tol)
     ELSE BigLess(BigAdd(BigSq(px), BigSq(py)),
                  BigMul(BigSq(BigOfInt(tol)), BigSq(l2)))

HitRect(ent, worldPos) ==
  /\ worldPos.x >= ent.x
  /\ worldPos.x <= ent.x + ent.width
  /\ worldPos.y >= ent.y
  /\ worldPos.y <= ent.y + ent.height

\* the per-variant tests of the predicate
GeomHit(ent, worldPos) ==
  IF ent.type = "circle" THEN HitCircle(ent, worldPos, tolerance(view.zoom))
  ELSE IF ent.type = "line" THEN HitLine(ent, worldPos, tolerance(view.zoom))
  ELSE IF ent.type = "rect" THEN HitRect(ent, worldPos)
  ELSE FALSE

\* HitTest without the look at the layer
C5_HitTest(ent, worldPos) == GeomHit(ent, worldPos)

\* the predicate of entities.slice().reverse().find(...)
HitTest(ent, worldPos) ==
  IF ~LayerVisible(ent.layerId) THEN FALSE
  ELSE GeomHit(ent, worldPos)

\* index of the first match searching from the last entity down, or 0
RECURSIVE FindHitFrom(_, _)
FindHitFrom(worldPos, i) ==
  IF i = 0 THEN 0
  ELSE IF HitTest(entities[i], worldPos) THEN i
  ELSE FindHitFrom(worldPos, i - 1)

\* index of the first match searching from the first entity up, or 0
RECURSIVE C4_FindHitFrom(_, _)
C4_FindHitFrom(worldPos, i) ==
  IF i > Len(entities) THEN 0
  ELSE IF HitTest(entities[i], worldPos) THEN i
  ELSE C4_FindHitFrom(worldPos, i + 1)

C4_FindHit(worldPos) == C4_FindHitFrom(worldPos, 1)

FindHit(worldPos) == FindHitFrom(worldPos, Len(entities))

(* --------------------------- pointer handlers -------------------------- *)
DrawTools == {"LINE", "RECTANGLE", "CIRCLE"}

\* NewEntity giving the Rectangle tool a line
C24_NewEntity(t, newId, worldPos) ==
  IF t \in {"LINE", "RECTANGLE"} THEN
    << [id |-> newId, layerId |-> activeLayerId, type |-> "line",
        start |-> worldPos, end |-> worldPos] >>
  ELSE IF t = "CIRCLE" THEN
    << [id |-> newId, layerId |-> activeLayerId, type |-> "circle",
        cx |-> worldPos.x, cy |-> worldPos.y, r |-> RootOfInt(0)] >>
  ELSE <<>>

\* const common = {id, layerId, ...}; newEnt by tool (null for other tools)
NewEntity(t, newId, worldPos) ==
  IF t = "LINE" THEN
    << [id |-> newId, layerId |-> activeLayerId, type |-> "line",
        start |-> worldPos, end |-> worldPos] >>
  ELSE IF t = "RECTANGLE" THEN
    << [id |-> newId, layerId |-> activeLayerId, type |-> "rect",
        x |-> worldPos.x, y |-> worldPos.y, width |-> 0, height |-> 0] >>
  ELSE IF t = "CIRCLE" THEN
    << [id |-> newId, layerId |-> activeLayerId, type |-> "circle",
        cx |-> worldPos.x, cy |-> worldPos.y, r |-> RootOfInt(0)] >>
  ELSE <<>>

\* what the pointer events seen so far make of a pointer-down
GestureAfterDown(worldPos, button) ==
  IF ~isDrawing /\ tool \in DrawTools
  THEN [phase |-> "down", a |-> <<worldPos>>, btn |-> button]
  ELSE IF gesture.phase = "moved" THEN [gesture EXCEPT !.phase = "done"]
  ELSE NoGesture

GestureAfterMove ==
  IF gesture.phase \in {"down", "moved"}
  THEN [gesture EXCEPT !.phase = "moved"]
  ELSE NoGesture

\* CommitPreview putting the new entity first
C2_CommitPreview(prev, ent) == <<ent>> \o prev

\* CommitPreview turning away a shape of no size
C19_CommitPreview(prev, ent) ==
  IF \/ ent.type = "line" /\ ent.start = ent.end
     \/ ent.type = "rect" /\ ent.width = 0 /\ ent.height = 0
     \/ ent.type = "circle" /\ ent.r = RootOfInt(0)
  THEN prev
  ELSE Append(prev, ent)

\* setEntities(prev => [...prev, previewEntity])
CommitPreview(prev, ent) == Append(prev, ent)

handleMouseDown(p, button, newId) ==
  LET worldPos == screenToWorld(p.x, p.y, view.x, view.y, view.zoom) IN
  /\ gesture' = GestureAfterDown(worldPos, button)
  /\ IF tool = "PAN" \/ button = 1 THEN
       /\ dragStart' = <<p>>
       /\ last' = PointerEvent("down", "pan", worldPos, button, 0)
       /\ UNCHANGED <<entities, layers, activeLayerId, view, tool, selectedIds,
                      previewEntity, isDrawing, startPoint, prompt,
                      isGenerating, pending>>
     ELSE IF tool = "SELECT" THEN
       LET hit == FindHit(worldPos) IN
       /\ selectedIds' = IF hit # 0 THEN <<entities[hit].id>> ELSE <<>>
       /\ last' = PointerEvent("down", "select", worldPos, button, hit)
       /\ UNCHANGED <<entities, layers, activeLayerId, view, tool,
                      previewEntity, isDrawing, startPoint, dragStart, prompt,
                      isGenerating, pending>>
     ELSE IF ~isDrawing THEN
       /\ previewEntity' = NewEntity(tool, newId, worldPos)
       /\ isDrawing' = TRUE
       /\ startPoint' = <<worldPos>>
       /\ last' = PointerEvent("down", "anchor", worldPos, button, 0)
       /\ UNCHANGED <<entities, layers, activeLayerId, view, tool, selectedIds,
                      dragStart, prompt, isGenerating, pending>>
     ELSE
       /\ entities' = IF previewEntity # <<>>
                      THEN CommitPreview(entities, previewEntity[1])
                      ELSE entities
       /\ previewEntity' = <<>>
       /\ isDrawing' = FALSE
       /\ startPoint' = <<>>
       /\ last' = PointerEvent("down", "finish", worldPos, button, 0)
       /\ UNCHANGED <<layers, activeLayerId, view, tool, selectedIds,
                      dragStart, prompt, isGenerating, pending>>

\* MovedPreview with the rectangle's height taken along x
C1_MovedPreview(ent, worldPos) ==
  IF ent.type = "line" THEN [ent EXCEPT !.end = worldPos]
  ELSE IF ent.type = "rect" THEN
    [ent EXCEPT !.width = worldPos.x - startPoint[1].x,
                !.height = worldPos.x - startPoint[1].x]
  ELSE IF ent.type = "circle" THEN
    [ent EXCEPT !.r = distance(startPoint[1], worldPos)]
  ELSE ent

\* the preview after a pointer-move to worldPos
MovedPreview(ent, worldPos) ==
  IF ent.type = "line" THEN [ent EXCEPT !.end = worldPos]
  ELSE IF ent.type = "rect" THEN
    [ent EXCEPT !.width = worldPos.x - startPoint[1].x,
                !.height = worldPos.y - startPoint[1].y]
  ELSE IF ent.type = "circle" THEN
    [ent EXCEPT !.r = distance(startPoint[1], worldPos)]
  ELSE ent

handleMouseMove(p) ==
  LET worldPos == screenToWorld(p.x, p.y, view.x, view.y, view.zoom) IN
  /\ gesture' = GestureAfterMove
  /\ IF dragStart # <<>> THEN
       LET dx == p.x - dragStart[1].x
           dy == p.y - dragStart[1].y
       IN /\ view' = [view EXCEPT !.x = @ + dx, !.y = @ + dy]
          /\ dragStart' = <<p>>
          /\ last' = PointerEvent("move", "pan", worldPos, 0, 0)
          /\ UNCHANGED <<entities, layers, activeLayerId, tool, selectedIds,
                         previewEntity, isDrawing, startPoint, prompt,
                         isGenerating, pending>>
     ELSE IF isDrawing /\ startPoint # <<>> /\ previewEntity # <<>> THEN
       /\ previewEntity' = << MovedPreview(previewEntity[1], worldPos) >>
       /\ last' = PointerEvent("move", "preview", worldPos, 0, 0)
       /\ UNCHANGED <<entities, layers, activeLayerId, view, tool, selectedIds,
                      isDrawing, startPoint, dragStart, prompt, isGenerating,
                      pending>>
     ELSE
       /\ last' = PointerEvent("move", "", worldPos, 0, 0)
       /\ UNCHANGED <<entities, layers, activeLayerId, view, tool, selectedIds,
                      previewEntity, isDrawing, startPoint, dragStart, prompt,
                      isGenerating, pending>>

handleMouseUp ==
  /\ dragStart' = <<>>
  /\ last' = Event("up", "")
  /\ gesture' = NoGesture
  /\ UNCHANGED <<entities, layers, activeLayerId, view, tool, selectedIds,
                 previewEntity, isDrawing, startPoint, prompt, isGenerating,
                 pending>>

\* handleWheel zooming about the pointer: the pan offset moves too
C21_handleWheel(zoomIn) ==
  /\ view' = [x |-> 0, y |-> 0,
              zoom |-> IF zoomIn THEN view.zoom + 1 ELSE view.zoom - 1]
  /\ last' = Event("wheel", IF zoomIn THEN "in" ELSE "out")
  /\ gesture' = NoGesture
  /\ UNCHANGED <<entities, layers, activeLayerId, tool, selectedIds,
                 previewEntity, isDrawing, startPoint, dragStart, prompt,
                 isGenerating, pending>>

\* newZoom = zoomIn ? view.zoom * 1.1 : view.zoom / 1.1
handleWheel(zoomIn) ==
  LET newZoom == IF zoomIn THEN view.zoom + 1 ELSE view.zoom - 1 IN
  /\ view' = [view EXCEPT !.zoom = newZoom]
  /\ last' = Event("wheel", IF zoomIn THEN "in" ELSE "out")
  /\ gesture' = NoGesture
  /\ UNCHANGED <<entities, layers, activeLayerId, tool, selectedIds,
                 previewEntity, isDrawing, startPoint, dragStart, prompt,
                 isGenerating, pending>>

(* --------------------------- toolbar and keys -------------------------- *)
\* ToolButton onClick={() => setTool(...)}
setTool(t) ==
  /\ tool' = t
  /\ last' = Event("tool", t)
  /\ gesture' = NoGesture
  /\ UNCHANGED <<entities, layers, activeLayerId, view, selectedIds,
                 previewEntity, isDrawing, startPoint, dragStart, prompt,
                 isGenerating, pending>>

\* the command line: Enter on the upper-cased input value
commandInput(val) ==
  /\ tool' = IF val = "L" THEN "LINE"
             ELSE IF val = "C" THEN "CIRCLE"
             ELSE IF val = "R" THEN "RECTANGLE"
             ELSE tool
  /\ last' = Event("command", val)
  /\ gesture' = NoGesture
  /\ UNCHANGED <<entities, layers, activeLayerId, view, selectedIds,
                 previewEntity, isDrawing, startPoint, dragStart, prompt,
                 isGenerating, pending>>

\* selectedIds.includes(id)
Includes(ids, id) == \E i \in 1..Len(ids) : ids[i] = id

\* FilterOutSelected handing back what it keeps last entity first
RECURSIVE C10_FilterOutSelected(_, _)
C10_FilterOutSelected(prev, ids) ==
  IF prev = <<>> THEN <<>>
  ELSE IF Includes(ids, Head(prev).id) THEN C10_FilterOutSelected(Tail(prev), ids)
  ELSE C10_FilterOutSelected(Tail(prev), ids) \o <<Head(prev)>>

\* prev.filter(e => !selectedIds.includes(e.id))
RECURSIVE FilterOutSelected(_, _)
FilterOutSelected(prev, ids) ==
  IF prev = <<>> THEN <<>>
  ELSE IF Includes(ids, Head(prev).id) THEN FilterOutSelected(Tail(prev), ids)
  ELSE <<Head(prev)>> \o FilterOutSelected(Tail(prev), ids)

\* handleDelete abandoning the shape being drawn when nothing is selected
C9_handleDelete ==
  /\ gesture' = NoGesture
  /\ IF Len(selectedIds) = 0 THEN
       /\ isDrawing' = FALSE
       /\ previewEntity' = <<>>
       /\ last' = Event("delete", "none")
       /\ UNCHANGED <<entities, layers, activeLayerId, view, tool, selectedIds,
                      startPoint, dragStart, prompt, isGenerating, pending>>
     ELSE
       /\ entities' = FilterOutSelected(entities, selectedIds)
       /\ selectedIds' = <<>>
       /\ last' = Event("delete", "deleted")
       /\ UNCHANGED <<layers, activeLayerId, view, tool, previewEntity,
                      isDrawing, startPoint, dragStart, prompt, isGenerating,
                      pending>>

\* handleDelete keeping the selection after the entities are removed
C25_handleDelete ==
  /\ gesture' = NoGesture
  /\ IF Len(selectedIds) = 0 THEN
       /\ last' = Event("delete", "none")
       /\ UNCHANGED <<entities, layers, activeLayerId, view, tool, selectedIds,
                      previewEntity, isDrawing, startPoint, dragStart, prompt,
                      isGenerating, pending>>
     ELSE
       /\ entities' = FilterOutSelected(entities, selectedIds)
       /\ last' = Event("delete", "deleted")
       /\ UNCHANGED <<layers, activeLayerId, view, tool, selectedIds,
                      previewEntity, isDrawing, startPoint, dragStart, prompt,
                      isGenerating, pending>>

\* the Delete key and the toolbar's Delete button
handleDelete ==
  /\ gesture' = NoGesture
  /\ IF Len(selectedIds) = 0 THEN
       /\ last' = Event("delete", "none")
       /\ UNCHANGED <<entities, layers, activeLayerId, view, tool, selectedIds,
                      previewEntity, isDrawing, startPoint, dragStart, prompt,
                      isGenerating, pending>>
     ELSE
       /\ entities' = FilterOutSelected(entities, selectedIds)
       /\ selectedIds' = <<>>
       /\ last' = Event("delete", "deleted")
       /\ UNCHANGED <<layers, activeLayerId, view, tool, previewEntity,
                      isDrawing, startPoint, dragStart, prompt, isGenerating,
                      pending>>

\* handleEscape leaving the active tool as it is
C3_handleEscape ==
  /\ isDrawing' = FALSE
  /\ previewEntity' = <<>>
  /\ selectedIds' = <<>>
  /\ last' = Event("escape", IF isDrawing THEN "drawing" ELSE "idle")
  /\ gesture' = NoGesture
  /\ UNCHANGED <<entities, layers, activeLayerId, view, tool, startPoint,
                 dragStart, prompt, isGenerating, pending>>

\* handleKey: e.key === 'Escape'
handleEscape ==
  /\ isDrawing' = FALSE
  /\ previewEntity' = <<>>
  /\ selectedIds' = <<>>
  /\ tool' = "SELECT"
  /\ last' = Event("escape", IF isDrawing THEN "drawing" ELSE "idle")
  /\ gesture' = NoGesture
  /\ UNCHANGED <<entities, layers, activeLayerId, view, startPoint, dragStart,
                 prompt, isGenerating, pending>>

(* ------------------------------ layer panel ---------------------------- *)
\* addLayer putting the new layer in the place of the last one
C26_addLayer(newId) ==
  /\ layers' = [layers EXCEPT ![Len(layers)] =
                  [id |-> newId, visible |-> TRUE, locked |-> FALSE]]
  /\ last' = Event("addLayer", "")
  /\ gesture' = NoGesture
  /\ UNCHANGED <<entities, activeLayerId, view, tool, selectedIds,
                 previewEntity, isDrawing, startPoint, dragStart, prompt,
                 isGenerating, pending>>

\* "+ New": setLayers(prev => [...prev, {id: generateId(), visible: true, ...}])
addLayer(newId) ==
  /\ layers' = Append(layers, [id |-> newId, visible |-> TRUE, locked |-> FALSE])
  /\ last' = Event("addLayer", "")
  /\ gesture' = NoGesture
  /\ UNCHANGED <<entities, activeLayerId, view, tool, selectedIds,
                 previewEntity, isDrawing, startPoint, dragStart, prompt,
                 isGenerating, pending>>

\* LayerRow onSelect
selectLayer(i) ==
  /\ i <= Len(layers)
  /\ activeLayerId' = layers[i].id
  /\ last' = Event("selectLayer", "")
  /\ gesture' = NoGesture
  /\ UNCHANGED <<entities, layers, view, tool, selectedIds, previewEntity,
                 isDrawing, startPoint, dragStart, prompt, isGenerating,
                 pending>>

\* prev.map(pl => pl.id === l.id ? {...pl, visible: !pl.visible} : pl)
onToggleVisible(i) ==
  /\ i <= Len(layers)
  /\ layers' = [j \in 1..Len(layers) |->
                  IF layers[j].id = layers[i].id
                  THEN [layers[j] EXCEPT !.visible = ~@]
                  ELSE layers[j]]
  /\ last' = Event("toggleVisible", "")
  /\ gesture' = NoGesture
  /\ UNCHANGED <<entities, activeLayerId, view, tool, selectedIds,
                 previewEntity, isDrawing, startPoint, dragStart, prompt,
                 isGenerating, pending>>

onToggleLock(i) ==
  /\ i <= Len(layers)
  /\ layers' = [j \in 1..Len(layers) |->
                  IF layers[j].id = layers[i].id
                  THEN [layers[j] EXCEPT !.locked = ~@]
                  ELSE layers[j]]
  /\ last' = Event("toggleLock", "")
  /\ gesture' = NoGesture
  /\ UNCHANGED <<entities, activeLayerId, view, tool, selectedIds,
                 previewEntity, isDrawing, startPoint, dragStart, prompt,
                 isGenerating, pending>>

(* ------------------------------ generation ----------------------------- *)
\* a number of a response, in 1/WorldScale world units
Num(n) == n * WorldScale

\* the switch on item.type of generateCadEntities: <<entity>>, or <<>> (null)
ItemToEntity(item, newId, layerId) ==
  IF "type" \notin DOMAIN item THEN <<>>
  ELSE IF item.type = "line" THEN
    << [id |-> newId, layerId |-> layerId, type |-> "line",
        start |-> [x |-> Num(item.startX), y |-> Num(item.startY)],
        end |-> [x |-> Num(item.endX), y |-> Num(item.endY)]] >>
  ELSE IF item.type = "circle" THEN
    << [id |-> newId, layerId |-> layerId, type |-> "circle",
        cx |-> Num(item.cx), cy |-> Num(item.cy), r |-> RootOfInt(Num(item.r))] >>
  ELSE IF item.type = "rect" THEN
    << [id |-> newId, layerId |-> layerId, type |-> "rect",
        x |-> Num(item.x), y |-> Num(item.y),
        width |-> Num(item.width), height |-> Num(item.height)] >>
  ELSE IF item.type = "text" THEN
    << [id |-> newId, layerId |-> layerId, type |-> "text",
        x |-> Num(item.x), y |-> Num(item.y), text |-> item.text,
        fontSize |-> item.fontSize] >>
  ELSE <<>>

\* generateCadEntities giving up the response at the first record it drops
RECURSIVE C22_generateCadEntities(_, _, _)
C22_generateCadEntities(items, ids, layerId) ==
  IF items = <<>> THEN <<>>
  ELSE IF ItemToEntity(Head(items), Head(ids), layerId) = <<>> THEN <<>>
  ELSE ItemToEntity(Head(items), Head(ids), layerId)
       \o C22_generateCadEntities(Tail(items), Tail(ids), layerId)

\* parsedData.map(...).filter(Boolean); ids[i] is the generateId() of item i
RECURSIVE generateCadEntities(_, _, _)
generateCadEntities(items, ids, layerId) ==
  IF items = <<>> THEN <<>>
  ELSE ItemToEntity(Head(items), Head(ids), layerId)
       \o generateCadEntities(Tail(items), Tail(ids), layerId)

typePrompt(v) ==
  /\ v # prompt
  /\ prompt' = v
  /\ last' = Event("prompt", "")
  /\ gesture' = NoGesture
  /\ UNCHANGED <<entities, layers, activeLayerId, view, tool, selectedIds,
                 previewEntity, isDrawing, startPoint, dragStart, isGenerating,
                 pending>>

\* the form's submit; its button is disabled while isGenerating
handleGeminiSubmit ==
  /\ ~isGenerating
  /\ gesture' = NoGesture
  /\ IF prompt = "" THEN
       /\ last' = Event("submit", "empty")
       /\ UNCHANGED <<entities, layers, activeLayerId, view, tool, selectedIds,
                      previewEntity, isDrawing, startPoint, dragStart, prompt,
                      isGenerating, pending>>
     ELSE
       /\ isGenerating' = TRUE
       /\ pending' = Append(pending, activeLayerId)
       /\ last' = Event("submit", "sent")
       /\ UNCHANGED <<entities, layers, activeLayerId, view, tool, selectedIds,
                      previewEntity, isDrawing, startPoint, dragStart, prompt>>

\* the record of a generation that returned: pt holds the entities returned
Generated(newEntities) == [Event("generated", "ok") EXCEPT !.pt = newEntities]

\* geminiResolved putting the new entities first
C16_geminiResolved(items, ids) ==
  LET newEntities == generateCadEntities(items, ids, Head(pending)) IN
  /\ pending # <<>>
  /\ entities' = newEntities \o entities
  /\ prompt' = ""
  /\ isGenerating' = FALSE
  /\ pending' = Tail(pending)
  /\ last' = Generated(newEntities)
  /\ gesture' = NoGesture
  /\ UNCHANGED <<layers, activeLayerId, view, tool, selectedIds, previewEntity,
                 isDrawing, startPoint, dragStart>>

\* the awaited call returns: setEntities(prev => [...prev, ...newEntities])
geminiResolved(items, ids) ==
  LET newEntities == generateCadEntities(items, ids, Head(pending)) IN
  /\ pending # <<>>
  /\ entities' = entities \o newEntities
  /\ prompt' = ""
  /\ isGenerating' = FALSE
  /\ pending' = Tail(pending)
  /\ last' = Generated(newEntities)
  /\ gesture' = NoGesture
  /\ UNCHANGED <<layers, activeLayerId, view, tool, selectedIds, previewEntity,
                 isDrawing, startPoint, dragStart>>

\* geminiRejected without the finally block
C15_geminiRejected ==
  /\ pending # <<>>
  /\ pending' = Tail(pending)
  /\ last' = Event("generated", "error")
  /\ gesture' = NoGesture
  /\ UNCHANGED <<entities, layers, activeLayerId, view, tool, selectedIds,
                 previewEntity, isDrawing, startPoint, dragStart, prompt,
                 isGenerating>>

\* the awaited call throws: catch, finally
geminiRejected ==
  /\ pending # <<>>
  /\ isGenerating' = FALSE
  /\ pending' = Tail(pending)
  /\ last' = Event("generated", "error")
  /\ gesture' = NoGesture
  /\ UNCHANGED <<entities, layers, activeLayerId, view, tool, selectedIds,
                 previewEntity, isDrawing, startPoint, dragStart, prompt>>

(* ------------------------------- export -------------------------------- *)
\* A document is the sequence of its lines.  A line is a fixed text, the
\* decimal text of a number (held in 1/WorldScale units), or the decimal
\* text of a square root (held as its square).
Text(str) == [kind |-> "text", text |-> str, num |-> 0, sq |-> BigZero]
NumberToString(n) == [kind |-> "number", text |-> "", num |-> n, sq |-> BigZero]
RootToString(d) == [kind |-> "root", text |-> "", num |-> 0, sq |-> d.sq]

\* "0\nSECTION\n2\nHEADER\n0\nENDSEC\n0\nSECTION\n2\nENTITIES\n"
DXFPrologue ==
  << Text("0"), Text("SECTION"), Text("2"), Text("HEADER"), Text("0"),
     Text("ENDSEC"), Text("0"), Text("SECTION"), Text("2"), Text("ENTITIES") >>

\* "0\nENDSEC\n0\nEOF\n"
DXFTrailer == << Text("0"), Text("ENDSEC"), Text("0"), Text("EOF") >>

\* DXFRecord writing every ordinate as it is held
C13_DXFRecord(ent) ==
  IF ent.type = "line" THEN
    << Text("0"), Text("LINE"), Text("8"), Text(ent.layerId),
       Text("10"), NumberToString(ent.start.x),
       Text("20"), NumberToString(ent.start.y),
       Text("11"), NumberToString(ent.end.x),
       Text("21"), NumberToString(ent.end.y) >>
  ELSE IF ent.type = "circle" THEN
    << Text("0"), Text("CIRCLE"), Text("8"), Text(ent.layerId),
       Text("10"), NumberToString(ent.cx),
       Text("20"), NumberToString(ent.cy),
       Text("40"), RootToString(ent.r) >>
  ELSE <<>>

\* the lines one entity adds to s
DXFRecord(ent) ==
  IF ent.type = "line" THEN
    << Text("0"), Text("LINE"), Text("8"), Text(ent.layerId),
       Text("10"), NumberToString(ent.start.x),
       Text("20"), NumberToString(-ent.start.y),
       Text("11"), NumberToString(ent.end.x),
       Text("21"), NumberToString(-ent.end.y) >>
  ELSE IF ent.type = "circle" THEN
    << Text("0"), Text("CIRCLE"), Text("8"), Text(ent.layerId),
       Text("10"), NumberToString(ent.cx),
       Text("20"), NumberToString(-ent.cy),
       Text("40"), RootToString(ent.r) >>
  ELSE IF ent.type = "rect" THEN
    LET x == ent.x
        y == -ent.y
        w == ent.width
        h == -ent.height
    IN << Text("0"), Text("LWPOLYLINE"), Text("8"), Text(ent.layerId),
          Text("90"), Text("4"), Text("70"), Text("1"),
          Text("10"), NumberToString(x), Text("20"), NumberToString(y),
          Text("10"), NumberToString(x + w), Text("20"), NumberToString(y),
          Text("10"), NumberToString(x + w), Text("20"), NumberToString(y + h),
          Text("10"), NumberToString(x), Text("20"), NumberToString(y + h) >>
  ELSE <<>>

\* DXFRecords leaving out the entities of hidden layers
RECURSIVE C12_DXFRecords(_)
C12_DXFRecords(ents) ==
  IF ents = <<>> THEN <<>>
  ELSE (IF LayerVisible(Head(ents).layerId) THEN DXFRecord(Head(ents)) ELSE <<>>)
       \o C12_DXFRecords(Tail(ents))

\* entities.forEach(ent => s += ...)
RECURSIVE DXFRecords(_)
DXFRecords(ents) ==
  IF ents = <<>> THEN <<>>
  ELSE DXFRecord(Head(ents)) \o DXFRecords(Tail(ents))

\* createDXFContent ending after the last record
C11_createDXFContent(ents) == DXFPrologue \o DXFRecords(ents)

createDXFContent(ents) == DXFPrologue \o DXFRecords(ents) \o DXFTrailer

\* the Export button: the document goes to the download drawing.dxf
handleExportDXF ==
  /\ exported' = createDXFContent(entities)
  /\ last' = Event("export", "")
  /\ gesture' = NoGesture
  /\ UNCHANGED <<entities, layers, activeLayerId, view, tool, selectedIds,
                 previewEntity, isDrawing, startPoint, dragStart, prompt,
                 isGenerating, pending>>

(* ------------------------- bounds of exploration ----------------------- *)
\* what the handlers of the drawing surface leave alone
outside == <<profile, exported, probe>>

InPanRange(v) == v >= -MaxPan /\ v <= MaxPan

\* the step stays within the bounds of the model
Within(maxLen) ==
  /\ Len(entities') <= maxLen
  /\ Len(layers') <= MaxLayers
  /\ InPanRange(view'.x) /\ InPanRange(view'.y)
  /\ view'.zoom >= -MaxZoomSteps /\ view'.zoom <= MaxZoomSteps

WithinBounds == Within(MaxEntities)

\* a shape is started or finished only while the drawing has room for it
CanDraw(button) == button = 1 \/ tool = "SELECT" \/ Len(entities) < MaxEntities

\* the drawing holds one shape at most
OneShape(button) == button = 1 \/ tool = "SELECT" \/ entities = <<>>

(* ------ SpecDraw: one shape drawn with each tool, with pan gestures ---- *)
DrawPts == {P00, P22}

NextDraw ==
  \/ /\ \E p \in DrawPts, b \in Buttons :
          OneShape(b) /\ handleMouseDown(p, b, "a") /\ WithinBounds
     /\ UNCHANGED outside
  \/ /\ \E p \in DrawPts : handleMouseMove(p) /\ WithinBounds
     /\ UNCHANGED outside
  \/ handleMouseUp /\ UNCHANGED outside
  \/ /\ \E t \in DrawTools : setTool(t)
     /\ UNCHANGED outside
  \/ /\ \E i \in SelectableLayers : selectLayer(i)
     /\ UNCHANGED outside

SpecDraw == Init /\ [][NextDraw]_vars

(* ------ SpecShape: one shape drawn and clicked at every zoom ----------- *)
NextShape ==
  \/ /\ \E p \in ScreenPts :
          OneShape(0) /\ handleMouseDown(p, 0, "a") /\ WithinBounds
     /\ UNCHANGED outside
  \/ /\ \E p \in ScreenPts : handleMouseMove(p) /\ WithinBounds
     /\ UNCHANGED outside
  \/ /\ \E zoomIn \in BOOLEAN : handleWheel(zoomIn) /\ WithinBounds
     /\ UNCHANGED outside
  \/ /\ \E t \in DrawTools \cup {"SELECT"} : setTool(t)
     /\ UNCHANGED outside

SpecShape == Init /\ [][NextShape]_vars

(* ------ SpecMulti: several shapes on two layers, drawn at one point ---- *)
MultiPts == {P00}
MultiTools == {"SELECT", "LINE", "RECTANGLE", "TEXT"}

NextMulti ==
  \/ /\ \E p \in MultiPts, b \in Buttons, newId \in IdPool :
          CanDraw(b) /\ handleMouseDown(p, b, newId) /\ WithinBounds
     /\ UNCHANGED outside
  \/ /\ \E p \in MultiPts : handleMouseMove(p) /\ WithinBounds
     /\ UNCHANGED outside
  \/ handleMouseUp /\ UNCHANGED outside
  \/ /\ \E t \in MultiTools : setTool(t)
     /\ UNCHANGED outside
  \/ handleDelete /\ UNCHANGED outside
  \/ handleEscape /\ UNCHANGED outside
  \/ /\ \E i \in SelectableLayers : selectLayer(i)
     /\ UNCHANGED outside
  \/ /\ \E i \in VisibleToggles : onToggleVisible(i)
     /\ UNCHANGED outside

SpecMulti == Init /\ [][NextMulti]_vars

(* ------ SpecOrder: overlapping shapes on shown and hidden layers ------- *)
OrderTools == {"SELECT", "LINE", "RECTANGLE"}

\* generateId() returns an identifier the drawing does not hold yet
FreshId == IF \E i \in 1..Len(entities) : entities[i].id = "a" THEN "b" ELSE "a"

NextOrder ==
  \/ /\ \E p \in DrawPts :
          CanDraw(0) /\ handleMouseDown(p, 0, FreshId) /\ WithinBounds
     /\ UNCHANGED outside
  \/ /\ \E p \in DrawPts : handleMouseMove(p) /\ WithinBounds
     /\ UNCHANGED outside
  \/ /\ \E t \in OrderTools : setTool(t)
     /\ UNCHANGED outside
  \/ /\ \E i \in SelectableLayers : selectLayer(i)
     /\ UNCHANGED outside
  \/ /\ \E i \in VisibleToggles : onToggleVisible(i)
     /\ UNCHANGED outside

SpecOrder == Init /\ [][NextOrder]_vars

(* ------ SpecAll: every event; each run adds one group of events -------- *)
Profiles == {"view", "layers", "generation"}
AllTools == {"SELECT", "LINE"}
\* the canvas origin: its world point is the same at every zoom
Origin == [x |-> 0, y |-> 0]
AllPts == {Origin}
NewLayerIds == {"a"}
AllCommands == {"L", "X"}
AllLayerRows == {2}
RoomFor(maxLen) == tool = "SELECT" \/ Len(entities) < maxLen

InitAll ==
  /\ entities = <<>>
  /\ layers = INITIAL_LAYERS
  /\ activeLayerId = "0"
  /\ view = INITIAL_VIEW
  /\ tool = "SELECT"
  /\ selectedIds = <<>>
  /\ previewEntity = <<>>
  /\ isDrawing = FALSE
  /\ startPoint = <<>>
  /\ dragStart = <<>>
  /\ prompt = ""
  /\ isGenerating = FALSE
  /\ pending = <<>>
  /\ last = Event("init", "")
  /\ gesture = NoGesture
  /\ profile \in Profiles
  /\ exported = <<>>
  /\ probe = NoProbe

NextAll ==
  \/ /\ \E p \in AllPts, newId \in IdPool :
          /\ RoomFor(MaxDrawing)
          /\ handleMouseDown(p, 0, newId)
          /\ Within(MaxDrawing)
     /\ UNCHANGED outside
  \/ /\ \E p \in AllPts : handleMouseMove(p) /\ Within(MaxDrawing)
     /\ UNCHANGED outside
  \/ /\ \E t \in AllTools : setTool(t)
     /\ UNCHANGED outside
  \/ /\ \E val \in AllCommands : commandInput(val)
     /\ UNCHANGED outside
  \/ handleDelete /\ UNCHANGED outside
  \/ handleEscape /\ UNCHANGED outside
  \/ /\ profile = "view"
     /\ \E p \in AllPts : handleMouseDown(p, 1, "a") /\ Within(MaxDrawing)
     /\ UNCHANGED outside
  \/ profile = "view" /\ handleMouseUp /\ UNCHANGED outside
  \/ /\ profile = "view"
     /\ \E zoomIn \in BOOLEAN : handleWheel(zoomIn) /\ Within(MaxDrawing)
     /\ UNCHANGED outside
  \/ /\ profile = "layers"
     /\ \E newId \in NewLayerIds : addLayer(newId) /\ Within(MaxDrawing)
     /\ UNCHANGED outside
  \/ /\ profile = "layers"
     /\ \E i \in AllLayerRows : selectLayer(i)
     /\ UNCHANGED outside
  \/ /\ profile = "layers"
     /\ \E i \in VisibleToggles : onToggleVisible(i)
     /\ UNCHANGED outside
  \/ /\ profile = "layers"
     /\ \E i \in LockToggles : onToggleLock(i)
     /\ UNCHANGED outside
  \/ /\ profile = "generation"
     /\ \E v \in Prompts : typePrompt(v)
     /\ UNCHANGED outside
  \/ profile = "generation" /\ handleGeminiSubmit /\ UNCHANGED outside
  \/ /\ profile = "generation"
     /\ \E n \in 0..MaxItems :
          \E items \in [1..n -> ItemPool], ids \in [1..n -> IdPool] :
            geminiResolved(items, ids) /\ Within(MaxDrawing)
     /\ UNCHANGED outside
  \/ profile = "generation" /\ geminiRejected /\ UNCHANGED outside

SpecAll == InitAll /\ [][NextAll]_vars

(* ------ SpecExport: drawn and generated shapes, exported --------------- *)
ItemCircle == [type |-> "circle", cx |-> 5, cy |-> 5, r |-> 2]
ItemText == [type |-> "text", x |-> 5, y |-> 5, text |-> "T", fontSize |-> 12]
ExportItems == {ItemLine, ItemCircle, ItemText}
ExportTools == {"RECTANGLE"}
GeneratedIds == {"b"}
ExportLayerRows == {2}

NextExport ==
  \/ /\ \E p \in DrawPts :
          OneShape(0) /\ handleMouseDown(p, 0, "a") /\ WithinBounds
     /\ UNCHANGED outside
  \/ /\ \E p \in DrawPts : handleMouseMove(p) /\ WithinBounds
     /\ UNCHANGED outside
  \/ /\ \E t \in ExportTools : setTool(t)
     /\ UNCHANGED outside
  \/ /\ \E i \in ExportLayerRows : selectLayer(i)
     /\ UNCHANGED outside
  \/ /\ \E i \in VisibleToggles : onToggleVisible(i)
     /\ UNCHANGED outside
  \/ /\ \E v \in Prompts : typePrompt(v)
     /\ UNCHANGED outside
  \/ handleGeminiSubmit /\ UNCHANGED outside
  \/ /\ \E n \in 0..MaxItems :
          \E items \in [1..n -> ExportItems], ids \in [1..n -> GeneratedIds] :
            geminiResolved(items, ids) /\ WithinBounds
     /\ UNCHANGED outside
  \/ handleExportDXF /\ UNCHANGED <<profile, probe>>

SpecExport == Init /\ [][NextExport]_vars

(* ------ SpecPan: pan drags, wheel and one line ------------------------- *)
PanTools == {"LINE"}

NextPan ==
  \/ /\ \E p \in DrawPts, b \in Buttons :
          OneShape(b) /\ handleMouseDown(p, b, "a") /\ WithinBounds
     /\ UNCHANGED outside
  \/ /\ \E p \in DrawPts : handleMouseMove(p) /\ WithinBounds
     /\ UNCHANGED outside
  \/ handleMouseUp /\ UNCHANGED outside
  \/ /\ \E zoomIn \in BOOLEAN : handleWheel(zoomIn) /\ WithinBounds
     /\ UNCHANGED outside
  \/ /\ \E t \in PanTools : setTool(t)
     /\ UNCHANGED outside

SpecPan == Init /\ [][NextPan]_vars

(* ------ SpecGenerate: generations; each run has one response ----------- *)
\* the parsed responses and the generateId() outcomes of their records
Responses ==
  UNION { [items : [1..n -> {ItemLine, ItemCircle, ItemUnknown, ItemMissing}],
           ids : [1..n -> IdPool]] : n \in 0..(MaxItems + 1) }

InitGenerate ==
  /\ entities = <<>>
  /\ layers = INITIAL_LAYERS
  /\ activeLayerId = "0"
  /\ view = INITIAL_VIEW
  /\ tool = "SELECT"
  /\ selectedIds = <<>>
  /\ previewEntity = <<>>
  /\ isDrawing = FALSE
  /\ startPoint = <<>>
  /\ dragStart = <<>>
  /\ prompt = ""
  /\ isGenerating = FALSE
  /\ pending = <<>>
  /\ last = Event("init", "")
  /\ gesture = NoGesture
  /\ profile \in Responses
  /\ exported = <<>>
  /\ probe = NoProbe

NextGenerate ==
  \/ typePrompt("draw") /\ UNCHANGED outside
  \/ handleGeminiSubmit /\ UNCHANGED outside
  \/ /\ geminiResolved(profile.items, profile.ids)
     /\ Len(entities') <= 2 * MaxItems
     /\ UNCHANGED outside
  \/ geminiRejected /\ UNCHANGED outside
  \/ /\ \E i \in AllLayerRows : selectLayer(i)
     /\ UNCHANGED outside

SpecGenerate == InitGenerate /\ [][NextGenerate]_vars

(* ------ SpecLayers: layers added and selected, shapes put on them ------ *)
NextLayers ==
  \/ /\ \E p \in MultiPts, newId \in GeneratedIds :
          OneShape(0) /\ handleMouseDown(p, 0, newId) /\ WithinBounds
     /\ UNCHANGED outside
  \/ /\ \E p \in MultiPts : handleMouseMove(p) /\ WithinBounds
     /\ UNCHANGED outside
  \/ /\ \E t \in ExportTools : setTool(t)
     /\ UNCHANGED outside
  \/ /\ \E newId \in NewLayerIds : addLayer(newId) /\ WithinBounds
     /\ UNCHANGED outside
  \/ /\ \E i \in {2, MaxLayers} : selectLayer(i)
     /\ UNCHANGED outside
  \/ /\ \E i \in VisibleToggles : onToggleVisible(i)
     /\ UNCHANGED outside
  \/ /\ \E i \in LockToggles : onToggleLock(i)
     /\ UNCHANGED outside
  \/ /\ \E v \in Prompts : typePrompt(v)
     /\ UNCHANGED outside
  \/ handleGeminiSubmit /\ UNCHANGED outside
  \/ /\ \E items \in [1..1 -> ItemPool], ids \in [1..1 -> GeneratedIds] :
          geminiResolved(items, ids) /\ WithinBounds
     /\ UNCHANGED outside
  \/ geminiRejected /\ UNCHANGED outside

SpecLayers == Init /\ [][NextLayers]_vars

(* ------ SpecRoundTrip: the coordinate functions on JavaScript numbers -- *)
\* the literal 1.1 of handleWheel: the number nearest to 11/10
scaleFactor == FloatDiv(FloatOfInt(ScaleNum), FloatOfInt(ScaleDen))

\* the zoom handleWheel sets
newZoom(zoom, zoomIn) ==
  IF zoomIn THEN FloatMul(zoom, scaleFactor) ELSE FloatDiv(zoom, scaleFactor)

\* integer pixel positions (sx, sy) and pans (px, py), at the zoom 1 of the
\* view after construction
ProbeInputs ==
  { [stage |-> "screen point", sx |-> sx, sy |-> sy, px |-> px, py |-> py,
     zoom |-> FloatOfInt(1), wheels |-> 0, world |-> <<>>, screen |-> <<>>] :
      sx \in {0, 10, 30, 59}, sy \in {0, 59},
      px \in {-40, -29, 0, 20}, py \in {-29, 0} }

\* the state of the application proper
app == <<entities, layers, activeLayerId, view, tool, selectedIds,
         previewEntity, isDrawing, startPoint, dragStart, prompt,
         isGenerating, pending, last, gesture, profile, exported>>

InitRoundTrip ==
  /\ entities = <<>>
  /\ layers = INITIAL_LAYERS
  /\ activeLayerId = "0"
  /\ view = INITIAL_VIEW
  /\ tool = "SELECT"
  /\ selectedIds = <<>>
  /\ previewEntity = <<>>
  /\ isDrawing = FALSE
  /\ startPoint = <<>>
  /\ dragStart = <<>>
  /\ prompt = ""
  /\ isGenerating = FALSE
  /\ pending = <<>>
  /\ last = Event("init", "")
  /\ gesture = NoGesture
  /\ profile = "user"
  /\ exported = <<>>
  /\ probe \in ProbeInputs

\* a wheel step before the call
wheelProbe(zoomIn) ==
  /\ probe.stage = "screen point"
  /\ probe.wheels < MaxZoomSteps
  /\ probe' = [probe EXCEPT !.zoom = newZoom(probe.zoom, zoomIn),
                            !.wheels = probe.wheels + 1]

applyScreenToWorld ==
  /\ probe.stage = "screen point"
  /\ probe' = [probe EXCEPT
       !.stage = "world point",
       !.world = <<screenToWorldFloat(FloatOfInt(probe.sx), FloatOfInt(probe.sy),
                                      FloatOfInt(probe.px), FloatOfInt(probe.py),
                                      probe.zoom)>>]

applyWorldToScreen ==
  /\ probe.stage = "world point"
  /\ probe' = [probe EXCEPT
       !.stage = "round trip",
       !.screen = <<worldToScreen(probe.world[1].x, probe.world[1].y,
                                  FloatOfInt(probe.px), FloatOfInt(probe.py),
                                  probe.zoom)>>]

NextRoundTrip ==
  \/ /\ \E zoomIn \in BOOLEAN : wheelProbe(zoomIn)
     /\ UNCHANGED app
  \/ applyScreenToWorld /\ UNCHANGED app
  \/ applyWorldToScreen /\ UNCHANGED app

SpecRoundTrip == InitRoundTrip /\ [][NextRoundTrip]_vars

(* ======================= properties of the draw tool =================== *)
\* the entity a draw gesture from world point a to world point b makes
DrawnShape(t, layerId, a, b) ==
  IF t = "LINE" THEN
    [id |-> "", layerId |-> layerId, type |-> "line", start |-> a, end |-> b]
  ELSE IF t = "RECTANGLE" THEN
    [id |-> "", layerId |-> layerId, type |-> "rect",
     x |-> a.x, y |-> a.y, width |-> b.x - a.x, height |-> b.y - a.y]
  ELSE
    [id |-> "", layerId |-> layerId, type |-> "circle",
     cx |-> a.x, cy |-> a.y,
     r |-> [sq |-> BigAdd(BigSq(BigOfInt(b.x - a.x)), BigSq(BigOfInt(b.y - a.y)))]]

\* next is prev with the one entity ent, whatever its identifier, at the end
AddsOne(prev, next, ent) ==
  /\ Len(next) = Len(prev) + 1
  /\ SubSeq(next, 1, Len(prev)) = prev
  /\ [next[Len(next)] EXCEPT !.id = ""] = ent

\* a pointer-down ends the sequence pointer-down in Idle with a draw tool,
\* pointer-moves, pointer-down
GestureEnds == gesture.phase = "moved" /\ last.op = "move" /\ last'.op = "down"

GestureCommits ==
  AddsOne(entities, entities',
          DrawnShape(tool, activeLayerId, gesture.a[1], last.pt[1]))

\* C1 as stated: from Idle with a draw tool, a pointer-down at A, pointer-moves
\* the last of which is at P, and a second pointer-down add exactly one entity
\* of the tool's variant on the active layer with the geometry A and P give
C1_AsStated == [][GestureEnds => GestureCommits]_vars

\* C1: the same, when neither pointer-down is made with the middle button and
\* no pan drag is in progress during the gesture
C1_DrawGesture ==
  [][(GestureEnds /\ gesture.btn # 1 /\ last'.btn # 1 /\ dragStart = <<>>)
       => GestureCommits]_vars

\* a rectangle drawn from (10,10) to (50,40) has been committed
C1_Witness ==
  /\ gesture.phase = "done" /\ gesture.btn = 0
  /\ last.did = "finish" /\ last.btn = 0
  /\ dragStart = <<>>
  /\ Len(entities) = 1
  /\ entities[1].type = "rect"
  /\ entities[1].x = Num(10) /\ entities[1].y = Num(10)
  /\ entities[1].width = Num(40) /\ entities[1].height = Num(30)

\* a pointer-down arrives in the Drawing state with a draw tool active
DownWhileDrawing == isDrawing /\ tool \in DrawTools /\ last'.op = "down"

\* C2 as stated: a pointer-down with a drawing tool while Drawing appends the
\* preview entity as the last element, keeps every committed entity in place,
\* clears the preview and returns to Idle
C2_AsStated ==
  [][DownWhileDrawing =>
       /\ previewEntity # <<>>
       /\ Len(entities') = Len(entities) + 1
       /\ SubSeq(entities', 1, Len(entities)) = entities
       /\ entities'[Len(entities')] = previewEntity[1]
       /\ previewEntity' = <<>>
       /\ ~isDrawing']_vars

\* C2: a pointer-down with a button other than the middle one, with a drawing
\* tool, while Drawing, appends the preview entity (if there is one) as the
\* last element, keeps every committed entity in place, clears the preview and
\* returns to Idle; without a preview the entity set stays as it is
C2_SecondDown ==
  [][(DownWhileDrawing /\ last'.btn # 1) =>
       /\ IF previewEntity # <<>>
          THEN /\ Len(entities') = Len(entities) + 1
               /\ SubSeq(entities', 1, Len(entities)) = entities
               /\ entities'[Len(entities')] = previewEntity[1]
          ELSE entities' = entities
       /\ previewEntity' = <<>>
       /\ ~isDrawing']_vars

\* a second shape has been committed behind a first, different one
C2_Witness ==
  /\ last.op = "down" /\ last.did = "finish" /\ last.btn = 0
  /\ tool \in DrawTools
  /\ Len(entities) = 2 /\ entities[1] # entities[2]
  /\ previewEntity = <<>> /\ ~isDrawing

\* C3: Escape while Drawing leaves the entity set as it is, discards the
\* preview, returns to Idle and makes Select the active tool
C3_EscapeWhileDrawing ==
  [][(isDrawing /\ last'.op = "escape") =>
       /\ entities' = entities
       /\ previewEntity' = <<>>
       /\ ~isDrawing'
       /\ tool' = "SELECT"]_vars

\* Escape arrived while a shape was being drawn behind a committed one
C3_Witness ==
  /\ last.op = "escape" /\ last.did = "drawing"
  /\ Len(entities) = 1
  /\ previewEntity = <<>> /\ ~isDrawing /\ tool = "SELECT"

(* ========================= properties of delete ======================== *)
\* C9: a delete action with an empty selection changes neither the entity
\* set, nor the selection, nor the state of the draw tool
C9_DeleteNothing ==
  [][(last'.op = "delete" /\ selectedIds = <<>>) =>
       UNCHANGED <<entities, selectedIds, tool, isDrawing, previewEntity,
                   startPoint>>]_vars

\* delete arrived with nothing selected while a shape was being drawn
C9_Witness ==
  /\ last.op = "delete" /\ last.did = "none"
  /\ selectedIds = <<>>
  /\ entities # <<>>
  /\ isDrawing /\ previewEntity # <<>>

(* ======================= properties of selection ======================= *)
\* the event handled last was a click with the Select tool
Clicked == last.op = "down" /\ last.did = "select"

\* the greatest element of a non-empty set of numbers
Greatest(S) == CHOOSE i \in S : \A j \in S : j <= i

\* the entities that pass the hit test at the point clicked
Matching == {i \in 1..Len(entities) : HitTest(entities[i], last.pt[1])}

\* C4: when two or more entities on visible layers satisfy their hit test at
\* the point of a Select click, the selection becomes exactly the one of them
\* inserted latest
C4_LatestWins ==
  (Clicked /\ Cardinality(Matching) >= 2) =>
     /\ last.hit = Greatest(Matching)
     /\ selectedIds = <<entities[Greatest(Matching)].id>>

\* a click has met two matching entities with different identifiers
C4_Witness ==
  /\ Clicked
  /\ Cardinality(Matching) = 2
  /\ entities[1].id # entities[2].id
  /\ selectedIds = <<entities[2].id>>

\* the layer list holds a layer with this identifier and its first one is shown
Shown(layerId) ==
  \E i \in 1..Len(layers) :
    /\ layers[i].id = layerId
    /\ layers[i].visible
    /\ \A j \in 1..(i - 1) : layers[j].id # layerId

\* the entities on shown layers whose geometry matches the point clicked
ShownMatching ==
  {i \in 1..Len(entities) :
     Shown(entities[i].layerId) /\ GeomHit(entities[i], last.pt[1])}

\* C5: a Select click never selects an entity whose layer is missing or
\* hidden, and selects the topmost matching entity on a shown layer whatever
\* hidden entities lie above it
C5_HiddenSkipped ==
  Clicked =>
    /\ last.hit # 0 => Shown(entities[last.hit].layerId)
    /\ IF ShownMatching = {}
       THEN last.hit = 0 /\ selectedIds = <<>>
       ELSE /\ last.hit = Greatest(ShownMatching)
            /\ selectedIds = <<entities[last.hit].id>>

\* a click has selected the shown entity below a matching hidden one
C5_Witness ==
  /\ Clicked
  /\ Len(entities) = 2
  /\ ~Shown(entities[2].layerId)
  /\ GeomHit(entities[2], last.pt[1])
  /\ last.hit = 1
  /\ selectedIds = <<entities[1].id>>
  /\ entities[1].id # entities[2].id

(* ===================== properties of the hit tests ===================== *)
\* a click with the Select tool on a drawing of one entity of this variant
ClickedOn(type) ==
  /\ Clicked
  /\ Len(entities) = 1
  /\ entities[1].type = type
  /\ Shown(entities[1].layerId)

\* the bounds of a rectangle, whatever the signs of its width and height
Least2(a, b) == IF a <= b THEN a ELSE b
Greatest2(a, b) == IF a <= b THEN b ELSE a

InsideBounds(ent, pt) ==
  /\ Least2(ent.x, ent.x + ent.width) <= pt.x
  /\ pt.x <= Greatest2(ent.x, ent.x + ent.width)
  /\ Least2(ent.y, ent.y + ent.height) <= pt.y
  /\ pt.y <= Greatest2(ent.y, ent.y + ent.height)

\* C6: a Select click inside the bounds of a visible rectangle hits it, for
\* every rectangle the draw tool commits, negative width or height included
C6_RectHit ==
  (ClickedOn("rect") /\ InsideBounds(entities[1], last.pt[1])) =>
     /\ last.hit = 1
     /\ selectedIds = <<entities[1].id>>

\* the square of the distance between two world points
Dist2(p, q) == BigAdd(BigSq(BigOfInt(p.x - q.x)), BigSq(BigOfInt(p.y - q.y)))

\* the square of the tolerance 5 / zoom at the zoom of the click
Tol2 == BigSq(BigOfInt((HitTolerancePx * WorldScale * ZoomDen(view.zoom))
                         \div ZoomNum(view.zoom)))

BigFour == BigOfInt(4)
BigPositive(a) == BigLess(BigZero, a)

\* sqrt(a) < sqrt(b) + sqrt(t), for a, b, t >= 0
RootBelow(a, b, t) ==
  LET x == BigSub(BigSub(a, b), t)
  IN BigLess(x, BigZero) \/ BigLess(BigSq(x), BigMul(BigFour, BigMul(b, t)))

\* sqrt(a) <= sqrt(b) + sqrt(t), for a, b, t >= 0
RootAtMost(a, b, t) ==
  LET x == BigSub(BigSub(a, b), t)
  IN ~BigPositive(x) \/ ~BigLess(BigMul(BigFour, BigMul(b, t)), BigSq(x))

\* the circle clicked on: squares of the click's distance from the center and
\* of the radius
CircleD2 == Dist2(last.pt[1], [x |-> entities[1].cx, y |-> entities[1].cy])
CircleR2 == entities[1].r.sq

\* | distance - radius | < tolerance
OnRing == RootBelow(CircleD2, CircleR2, Tol2) /\ RootBelow(CircleR2, CircleD2, Tol2)

\* | distance - radius | <= tolerance / 2
NearRing ==
  /\ RootAtMost(BigMul(BigFour, CircleD2), BigMul(BigFour, CircleR2), Tol2)
  /\ RootAtMost(BigMul(BigFour, CircleR2), BigMul(BigFour, CircleD2), Tol2)

\* distance >= radius + 2 tolerance
FarOutside == ~RootBelow(CircleD2, CircleR2, BigMul(BigFour, Tol2))

\* the click is at the center of a circle with radius > tolerance
AtCenter == ~BigPositive(CircleD2) /\ BigLess(Tol2, CircleR2)

\* C7: a Select click hits a circle iff | distance(point, center) - radius |
\* < 5 / zoom: within half the tolerance of the ring it hits, two tolerances
\* outside it misses, and at the center of a circle wider than the tolerance
\* it misses
C7_CircleRing ==
  ClickedOn("circle") =>
    /\ last.hit = 1 <=> OnRing
    /\ NearRing => last.hit = 1
    /\ FarOutside => last.hit = 0
    /\ AtCenter => last.hit = 0

\* a click at the center of a circle of radius 25 has missed it
C7_Witness ==
  /\ ClickedOn("circle")
  /\ AtCenter
  /\ CircleR2 = BigSq(BigOfInt(Num(25)))
  /\ last.hit = 0 /\ selectedIds = <<>>

\* the line clicked on and the point of the click
LineA == entities[1].start
LineB == entities[1].end
LineP == last.pt[1]

AtMidpoint ==
  /\ 2 * LineP.x = LineA.x + LineB.x
  /\ 2 * LineP.y = LineA.y + LineB.y

\* (b - a) x (p - a) = 0
Collinear ==
  BigMul(BigOfInt(LineB.x - LineA.x), BigOfInt(LineP.y - LineA.y))
    = BigMul(BigOfInt(LineB.y - LineA.y), BigOfInt(LineP.x - LineA.x))

\* (p - from) . (to - from) < 0: p lies on the far side of from
Behind(p, from, to) ==
  BigLess(BigAdd(BigMul(BigOfInt(p.x - from.x), BigOfInt(to.x - from.x)),
                 BigMul(BigOfInt(p.y - from.y), BigOfInt(to.y - from.y))),
          BigZero)

\* p is on the line through the segment, past an endpoint by more than the
\* tolerance
BeyondEnd ==
  /\ LineA # LineB
  /\ Collinear
  /\ \/ Behind(LineP, LineA, LineB) /\ BigLess(Tol2, Dist2(LineP, LineA))
     \/ Behind(LineP, LineB, LineA) /\ BigLess(Tol2, Dist2(LineP, LineB))

\* C8: a Select click at the midpoint of a line hits it; a click on the line
\* through it but past an endpoint by more than 5 / zoom misses; a line with
\* start = end is hit iff distance(point, start) < 5 / zoom
C8_LineSegment ==
  ClickedOn("line") =>
    /\ AtMidpoint => last.hit = 1
    /\ BeyondEnd => last.hit = 0
    /\ LineA = LineB => (last.hit = 1 <=> BigLess(Dist2(LineP, LineA), Tol2))

\* a click on the line through a segment, past its end, has missed it
C8_Witness ==
  /\ ClickedOn("line")
  /\ BeyondEnd
  /\ last.hit = 0 /\ selectedIds = <<>>

\* the identifier of this entity is not in the selection
Unselected(ent) == \A i \in 1..Len(selectedIds) : selectedIds[i] # ent.id

\* C10: an entity leaves the entity set only in a delete action taken while
\* its identifier is selected; a delete action with a non-empty selection
\* removes exactly the entities whose identifiers are selected, keeps the
\* others in their order and empties the selection
C10_OnlyDeleteRemoves ==
  [][IF last'.op = "delete"
     THEN /\ entities' = SelectSeq(entities, Unselected)
          /\ selectedIds # <<>> => selectedIds' = <<>>
     ELSE /\ Len(entities') >= Len(entities)
          /\ SubSeq(entities', 1, Len(entities)) = entities]_vars

\* a delete action has removed the selected entity of three and left two
\* different ones
C10_Witness ==
  /\ last.op = "delete" /\ last.did = "deleted"
  /\ Len(entities) = 2 /\ entities[1] # entities[2]
  /\ selectedIds = <<>>

(* ========================= properties of export ======================== *)
\* the event handled last was an export: exported is the document of entities
Exported == last.op = "export"

\* the document lines with these texts
Lines(strs) == [i \in 1..Len(strs) |-> Text(strs[i])]

PrologueLines ==
  Lines(<<"0", "SECTION", "2", "HEADER", "0", "ENDSEC",
          "0", "SECTION", "2", "ENTITIES">>)
TrailerLines == Lines(<<"0", "ENDSEC", "0", "EOF">>)

\* C11: every exported document begins with the prologue (HEADER section,
\* opening of the ENTITIES section) and ends with the trailer (ENDSEC, EOF);
\* the document of the empty entity list is the prologue followed by the
\* trailer
C11_Framing ==
  Exported =>
    /\ Len(exported) >= Len(PrologueLines) + Len(TrailerLines)
    /\ SubSeq(exported, 1, Len(PrologueLines)) = PrologueLines
    /\ SubSeq(exported, Len(exported) - Len(TrailerLines) + 1, Len(exported))
         = TrailerLines
    /\ entities = <<>> => exported = PrologueLines \o TrailerLines

\* the empty drawing has been exported
C11_Witness ==
  /\ Exported
  /\ entities = <<>>
  /\ exported = PrologueLines \o TrailerLines

\* the names of the records of a document
RecordNames == {Text("LINE"), Text("CIRCLE"), Text("LWPOLYLINE")}

\* the lines at which the records of a document start, in order
RECURSIVE RecordStartsFrom(_, _)
RecordStartsFrom(doc, i) ==
  IF i >= Len(doc) THEN <<>>
  ELSE IF doc[i] = Text("0") /\ doc[i + 1] \in RecordNames
       THEN <<i>> \o RecordStartsFrom(doc, i + 2)
       ELSE RecordStartsFrom(doc, i + 1)

RecordStarts(doc) == RecordStartsFrom(doc, 1)

\* the entities that have a record format, in insertion order
HasRecord(ent) == ent.type \in {"line", "circle", "rect"}
Serialized == SelectSeq(entities, HasRecord)

RecordName(ent) ==
  IF ent.type = "line" THEN Text("LINE")
  ELSE IF ent.type = "circle" THEN Text("CIRCLE")
  ELSE Text("LWPOLYLINE")

RecordLength(ent) ==
  IF ent.type = "line" THEN 12 ELSE IF ent.type = "circle" THEN 10 ELSE 24

RECURSIVE SumOfLengths(_)
SumOfLengths(ents) ==
  IF ents = <<>> THEN 0 ELSE RecordLength(Head(ents)) + SumOfLengths(Tail(ents))

\* C12: the exported document holds exactly one record per line, circle and
\* rectangle of the entity set, in insertion order, tagged with the entity's
\* layerId, whether its layer is shown or not; text entities have no record
C12_EveryEntityOnce ==
  Exported =>
    LET starts == RecordStarts(exported) IN
    /\ Len(starts) = Len(Serialized)
    /\ \A k \in 1..Len(starts) :
         /\ exported[starts[k] + 1] = RecordName(Serialized[k])
         /\ exported[starts[k] + 2] = Text("8")
         /\ exported[starts[k] + 3] = Text(Serialized[k].layerId)
    /\ Len(exported) = Len(PrologueLines) + SumOfLengths(Serialized)
                         + Len(TrailerLines)

\* a drawing with a shape on a hidden layer and a text has been exported
C12_Witness ==
  /\ Exported
  /\ Len(entities) = 2
  /\ \E i \in 1..2 : HasRecord(entities[i]) /\ ~Shown(entities[i].layerId)
  /\ \E i \in 1..2 : entities[i].type = "text"
  /\ Len(RecordStarts(exported)) = 1

\* the line after the first line with this group code, from line i on
RECURSIVE GroupValue(_, _, _)
GroupValue(doc, i, code) ==
  IF doc[i] = Text(code) THEN doc[i + 1] ELSE GroupValue(doc, i + 2, code)

\* the decimal text of the number n and of the distance d
Written(n) == [kind |-> "number", text |-> "", num |-> n, sq |-> BigZero]
WrittenRoot(d) == [kind |-> "root", text |-> "", num |-> 0, sq |-> d.sq]

\* C13: in the record of a line or circle every X ordinate is written as it
\* is, every Y ordinate negated, and the radius of a circle as it is
C13_YNegated ==
  Exported =>
    LET starts == RecordStarts(exported) IN
    \A k \in 1..Len(Serialized) :
      LET ent == Serialized[k]
          i == starts[k] + 4
      IN /\ ent.type = "line" =>
              /\ GroupValue(exported, i, "10") = Written(ent.start.x)
              /\ GroupValue(exported, i, "20") = Written(0 - ent.start.y)
              /\ GroupValue(exported, i, "11") = Written(ent.end.x)
              /\ GroupValue(exported, i, "21") = Written(0 - ent.end.y)
         /\ ent.type = "circle" =>
              /\ GroupValue(exported, i, "10") = Written(ent.cx)
              /\ GroupValue(exported, i, "20") = Written(0 - ent.cy)
              /\ GroupValue(exported, i, "40") = WrittenRoot(ent.r)

\* the circle {cx: 5, cy: 5, r: 2} on layer "0" has been exported with the
\* lines 10, 5, 20, -5, 40, 2
C13_Witness ==
  /\ Exported
  /\ \E k \in 1..Len(entities) :
       /\ entities[k].type = "circle" /\ entities[k].layerId = "0"
       /\ entities[k].cx = 5 * WorldScale /\ entities[k].cy = 5 * WorldScale
       /\ entities[k].r = [sq |-> BigSq(BigOfInt(2 * WorldScale))]
  /\ \E i \in 1..(Len(exported) - 5) :
       SubSeq(exported, i, i + 5)
         = << Text("10"), Written(5 * WorldScale),
              Text("20"), Written(0 - 5 * WorldScale),
              Text("40"), WrittenRoot([sq |-> BigSq(BigOfInt(2 * WorldScale))]) >>

\* the k-th vertex of the polyline record that starts at line i
VertexX(doc, i, k) == doc[i + 8 + 4 * (k - 1) + 1].num
VertexY(doc, i, k) == doc[i + 8 + 4 * (k - 1) + 3].num

\* C14: a rectangle is exported as a closed polyline of 4 vertices in the
\* order top-left, top-right, bottom-right, bottom-left of the output space
\* (Y negated, so top is the greater Y), negative width or height included
C14_RectVertices ==
  Exported =>
    LET starts == RecordStarts(exported) IN
    \A k \in 1..Len(Serialized) :
      LET ent == Serialized[k]
          i == starts[k]
          left == Least2(ent.x, ent.x + ent.width)
          right == Greatest2(ent.x, ent.x + ent.width)
          top == Greatest2(0 - ent.y, 0 - (ent.y + ent.height))
          bottom == Least2(0 - ent.y, 0 - (ent.y + ent.height))
      IN ent.type = "rect" =>
           /\ exported[i + 5] = Text("4") /\ exported[i + 7] = Text("1")
           /\ VertexX(exported, i, 1) = left /\ VertexY(exported, i, 1) = top
           /\ VertexX(exported, i, 2) = right /\ VertexY(exported, i, 2) = top
           /\ VertexX(exported, i, 3) = right /\ VertexY(exported, i, 3) = bottom
           /\ VertexX(exported, i, 4) = left /\ VertexY(exported, i, 4) = bottom

(* ======================= properties of generation ====================== *)
\* C15: when a generation request fails, the entity set, and with it the
\* rest of the drawing and of the tool state, is what it was, and the
\* generating flag is false again, so that the submit button, the one control
\* the flag disables, is enabled like every other interaction
C15_FailureLeavesDrawing ==
  [][(last'.op = "generated" /\ last'.did = "error") =>
       /\ entities' = entities
       /\ ~isGenerating'
       /\ UNCHANGED <<layers, activeLayerId, view, tool, selectedIds,
                      previewEntity, isDrawing, startPoint, dragStart>>]_vars

\* a request has failed on a drawing that holds an entity
C15_Witness ==
  /\ last.op = "generated" /\ last.did = "error"
  /\ entities # <<>>
  /\ ~isGenerating /\ pending = <<>>

\* C16: a generation merges nothing when it is requested, other events go on
\* while it is in flight, and when it returns, all the entities it returned
\* are appended, in order, to the entity set as it is at that time
C16_MergeOnCompletion ==
  [][/\ last'.op = "submit" => entities' = entities
     /\ (last'.op = "generated" /\ last'.did = "ok") =>
          /\ Len(entities') = Len(entities) + Len(last'.pt)
          /\ SubSeq(entities', 1, Len(entities)) = entities
          /\ SubSeq(entities', Len(entities) + 1, Len(entities')) = last'.pt
          /\ \A i \in 1..Len(last'.pt) : last'.pt[i].layerId = Head(pending)]_vars

\* a generation has returned an entity onto a drawing that holds another
C16_Witness ==
  /\ last.op = "generated" /\ last.did = "ok"
  /\ Len(last.pt) >= 1
  /\ Len(entities) > Len(last.pt)
  /\ entities[1] # entities[Len(entities)]

(* ======================= properties of identifiers ===================== *)
\* C18: no two entities of the entity set, and no preview entity and
\* committed entity, have the same identifier
C18_UniqueIds ==
  /\ \A i, j \in 1..Len(entities) : i # j => entities[i].id # entities[j].id
  /\ previewEntity # <<>> =>
       \A i \in 1..Len(entities) : entities[i].id # previewEntity[1].id

(* ================== more properties of the draw tool =================== *)
\* a pointer-down follows, at the same world point and with no event in
\* between, a pointer-down made in Idle with a draw tool
DoubleDown ==
  /\ gesture.phase = "down" /\ last.op = "down"
  /\ last'.op = "down" /\ last'.pt = last.pt

DegenerateCommitted ==
  AddsOne(entities, entities',
          DrawnShape(tool, activeLayerId, gesture.a[1], gesture.a[1]))

\* C19 as stated: with a draw tool, two pointer-downs at the same world point
\* with no pointer-move in between commit exactly one entity: a line with
\* start = end, a rectangle with width = height = 0, a circle with radius 0
C19_AsStated == [][DoubleDown => DegenerateCommitted]_vars

\* C19: the same, when neither pointer-down is made with the middle button
C19_NoMinimumSize ==
  [][(DoubleDown /\ gesture.btn # 1 /\ last'.btn # 1) => DegenerateCommitted]_vars

\* two pointer-downs at one point have committed a circle of radius 0
C19_Witness ==
  /\ last.op = "down" /\ last.did = "finish" /\ last.btn = 0
  /\ gesture.phase = "none"
  /\ Len(entities) = 1
  /\ entities[1].type = "circle"
  /\ entities[1].cx = last.pt[1].x /\ entities[1].cy = last.pt[1].y
  /\ ~BigPositive(entities[1].r.sq)

(* ========================= properties of the view ====================== *)
\* a drag-pan gesture is active: a pointer-down started it, no pointer-up yet
PanActive == dragStart # <<>>

\* C20: while a pan gesture is active each pointer-move adds the pointer's
\* displacement since the previous pointer position, in pixels, to the pan
\* offset and leaves the entity set, the selection and the preview as they
\* are, and no step changes the zoom factor
C20_PanGesture ==
  [][PanActive =>
       /\ view'.zoom = view.zoom
       /\ last'.op = "move" =>
            /\ dragStart' # <<>>
            /\ view'.x = view.x + (dragStart'[1].x - dragStart[1].x)
            /\ view'.y = view.y + (dragStart'[1].y - dragStart[1].y)
            /\ UNCHANGED <<entities, selectedIds, previewEntity>>]_vars

(* ================= properties of the coordinate functions ============== *)
\* a screen point has been taken to the world and back
RoundTripDone == probe # NoProbe /\ probe.stage = "round trip"

Scaled(k1, k2, zoomIn) ==
  IF zoomIn
  THEN ZoomNum(k2) * ZoomDen(k1) * ScaleDen = ZoomNum(k1) * ZoomDen(k2) * ScaleNum
  ELSE ZoomNum(k2) * ZoomDen(k1) * ScaleNum = ZoomNum(k1) * ZoomDen(k2) * ScaleDen

\* C21: each wheel event multiplies the zoom factor by 1.1 (deltaY < 0) or
\* divides it by 1.1 (otherwise) and leaves the pan offset, the entities, the
\* selection and the draw state as they were; the handler applies no lower
\* or upper bound (it can act in either direction in every state), and the
\* zoom factor stays strictly positive
C21_Wheel ==
  /\ [](\A zoomIn \in BOOLEAN : ENABLED handleWheel(zoomIn))
  /\ [][last'.op = "wheel" =>
         /\ Scaled(view.zoom, view'.zoom, last'.did = "in")
         /\ ZoomNum(view'.zoom) > 0 /\ ZoomDen(view'.zoom) > 0
         /\ view'.x = view.x /\ view'.y = view.y
         /\ UNCHANGED <<entities, selectedIds, tool, isDrawing, startPoint,
                        previewEntity, dragStart>>]_vars

\* a wheel event away from zoom 1 on a panned view, in mid-draw
C21_Witness ==
  /\ last.op = "wheel" /\ last.did = "out"
  /\ view.zoom # 0
  /\ view.x # 0
  /\ isDrawing /\ previewEntity # <<>>

(* ==================== properties of generated records ================== *)
\* a record with one of the four variant tags
WellFormed(item) ==
  "type" \in DOMAIN item /\ item.type \in {"line", "circle", "rect", "text"}

\* the positions from i on of the well-formed records of items, in order
RECURSIVE KeptFrom(_, _)
KeptFrom(items, i) ==
  IF i > Len(items) THEN <<>>
  ELSE IF WellFormed(items[i]) THEN <<i>> \o KeptFrom(items, i + 1)
  ELSE KeptFrom(items, i + 1)

\* new holds, in order, one entity per position of kept: of that record's
\* variant and numbers, with that record's identifier, on the layer
Converted(new, kept, items, ids, layerId) ==
  /\ Len(new) = Len(kept)
  /\ \A k \in 1..Len(kept) :
       /\ new[k].type = items[kept[k]].type
       /\ new[k].id = ids[kept[k]]
       /\ new[k].layerId = layerId
       /\ new[k].type = "line" =>
            /\ new[k].start = [x |-> Num(items[kept[k]].startX),
                               y |-> Num(items[kept[k]].startY)]
            /\ new[k].end = [x |-> Num(items[kept[k]].endX),
                             y |-> Num(items[kept[k]].endY)]
       /\ new[k].type = "circle" =>
            /\ new[k].cx = Num(items[kept[k]].cx)
            /\ new[k].cy = Num(items[kept[k]].cy)
            /\ new[k].r = RootOfInt(Num(items[kept[k]].r))

\* C22: when a response holds records whose variant tag is missing or is
\* not line, circle, rect or text, those records are dropped and every
\* well-formed record of the response is still converted, with its own
\* generated identifier and the layer of the request, and appended after the
\* entities there were, in the order of the response
C22_PerItemFiltering ==
  [][(last'.op = "generated" /\ last'.did = "ok") =>
       /\ Len(entities') >= Len(entities)
       /\ SubSeq(entities', 1, Len(entities)) = entities
       /\ Converted(SubSeq(entities', Len(entities) + 1, Len(entities')),
                    KeptFrom(profile.items, 1), profile.items, profile.ids,
                    Head(pending))]_vars

\* a response with a record without a tag between a line and a circle has
\* been merged twice, the second time on another layer
C22_Witness ==
  /\ last.op = "generated" /\ last.did = "ok"
  /\ profile.items = <<ItemLine, ItemMissing, ItemCircle>>
  /\ Len(entities) = 4
  /\ entities[3].layerId # entities[1].layerId
  /\ entities[3].type = "line" /\ entities[4].type = "circle"

(* ==================== properties of the draw machine =================== *)
\* C23: in every reachable state the draw machine is in the Drawing state
\* (isDrawing) if and only if a preview entity exists (previewEntity is not
\* null), under any sequence of pointer-downs, tool changes (the Text tool
\* included) and escape signals
C23_DrawingIffPreview == isDrawing <=> previewEntity # <<>>

\* the variant a drawing tool gives its entity
VariantOf(t) ==
  IF t = "LINE" THEN "line"
  ELSE IF t = "RECTANGLE" THEN "rect"
  ELSE IF t = "CIRCLE" THEN "circle"
  ELSE "none"

\* a pointer-down that appended an entity
Committing == /\ last'.op = "down" /\ last'.did = "finish"
              /\ Len(entities') = Len(entities) + 1

\* C24 as stated: every entity committed by a pointer-down has the variant of
\* the tool active at the moment of that commit, even when the active tool
\* was changed between the first and the committing pointer-down
C24_AsStated ==
  [][Committing => entities'[Len(entities')].type = VariantOf(tool)]_vars

\* C24: the entity committed by a pointer-down is the preview entity, whose
\* variant is that of the tool active at the first pointer-down: a preview
\* is created with the variant of the tool active at that moment, no step
\* changes the variant of an existing preview (a tool change leaves the
\* preview alone), and the committing pointer-down appends that preview
C24_VariantOfFirstDown ==
  [][/\ (previewEntity = <<>> /\ previewEntity' # <<>>)
        => /\ last'.op = "down" /\ last'.did = "anchor"
           /\ previewEntity'[1].type = VariantOf(tool)
     /\ (previewEntity # <<>> /\ previewEntity' # <<>>)
        => previewEntity'[1].type = previewEntity[1].type
     /\ last'.op = "tool" => UNCHANGED previewEntity
     /\ Committing
        => /\ previewEntity # <<>>
           /\ entities'[Len(entities')] = previewEntity[1]
           /\ SubSeq(entities', 1, Len(entities)) = entities]_vars

\* a line committed while the Rectangle tool was the active one
C24_Witness ==
  /\ last.op = "down" /\ last.did = "finish"
  /\ tool = "RECTANGLE"
  /\ Len(entities) = 1
  /\ entities[1].type = "line"
  /\ entities[1].start # entities[1].end

(* ==================== properties of the selection ====================== *)
\* C25: in every reachable state the selection holds at most one identifier,
\* and every identifier in the selection is the identifier of an entity
\* currently in the entity set
C25_SelectionRefersToEntities ==
  /\ Len(selectedIds) <= 1
  /\ \A s \in 1..Len(selectedIds) :
       \E i \in 1..Len(entities) : entities[i].id = selectedIds[s]

\* the second of two entities selected by a click
C25_Witness ==
  /\ last.op = "down" /\ last.did = "select"
  /\ Len(entities) = 2
  /\ selectedIds = <<entities[2].id>>
  /\ entities[1].id # entities[2].id

(* ==================== properties of the layer list ===================== *)
\* the identifiers of the layers in the layer list
LayerIds == { layers[i].id : i \in 1..Len(layers) }

\* the active layer, the preview and every entity are on a listed layer
Referenced ==
  /\ activeLayerId \in LayerIds
  /\ previewEntity # <<>> => previewEntity[1].layerId \in LayerIds
  /\ \A i \in 1..Len(entities) : entities[i].layerId \in LayerIds

\* C26: in every reachable state the active layer identifier, the layerId of
\* the preview entity and the layerId of every entity in the entity set,
\* drawn or generated, each refer to a layer present in the layer list;
\* layers are only ever appended or have their visible and locked flags
\* toggled, never removed or re-identified
C26_LayerReferences ==
  /\ []Referenced
  /\ [][/\ Len(layers') >= Len(layers)
        /\ \A i \in 1..Len(layers) : layers'[i].id = layers[i].id]_vars

\* a preview and a generated entity on an added layer that is the active one
C26_Witness ==
  /\ Len(layers) = MaxLayers
  /\ activeLayerId = layers[MaxLayers].id
  /\ activeLayerId \notin {"0", "1", "2"}
  /\ previewEntity # <<>>
  /\ previewEntity[1].layerId = activeLayerId
  /\ Len(entities) = 2
  /\ entities[1].layerId = "1"
  /\ entities[2].layerId = activeLayerId
  /\ last.op = "generated"

====
